---- MODULE Spec2Model ----
(***************************************************************************)
(* Model of signalEX/accounts/signals.py: two Django signal receivers,     *)
(*   send_welcome_email        (post_save,  sender = User)                 *)
(*   notify_before_post_delete (pre_delete, sender = Post)                 *)
(* together with the part of the framework that calls them: a save         *)
(* persists the row and then sends post_save, a delete sends pre_delete    *)
(* and then removes the row.  Execution is synchronous: one operation at a *)
(* time, the receivers run inside the operation that triggers them.        *)
(***************************************************************************)
EXTENDS Integers, Sequences, FiniteSets, TLC

(* ---------------------------- bounds ----------------------------------- *)
MaxUsers == 2
MaxPosts == 2
MaxEvents == 3

UserIds == 1..MaxUsers
PostIds == 1..MaxPosts

(* input values of the text attributes *)
Usernames == {"alice", "bob"}
Emails == {"", "alice@example.com"}
Titles == {"", "Hello World"}

(* ---------------------------- state ------------------------------------ *)
VARIABLES
  users,      \* persisted User rows: pk -> [username, email]
  posts,      \* persisted Post rows: pk -> [title]
  pc,         \* position of the running framework operation
  pending,    \* the signal being sent by the running operation
  outbox,     \* the send_mail calls made so far, in order
  stdout,     \* the lines printed so far, in order
  dispatched, \* the signals sent so far: the event, the receiver run, whether the
              \* mail transport was working, the outcome and the instance afterwards
  result      \* outcome of the last operation as seen by its caller

vars == <<users, posts, pc, pending, outbox, stdout, dispatched, result>>

NoEvent == [signal |-> "none"]

(* ---------------------------- text helpers ----------------------------- *)
\* Python's  t in s  for strings
Contains(s, t) ==
  \/ Len(t) = 0
  \/ \E i \in 1..(Len(s) - Len(t) + 1) : SubSeq(s, i, i + Len(t) - 1) = t

\* Python's attribute lookup: an object without the attribute raises AttributeError
HasAttr(instance, name) == name \in DOMAIN instance

(* ---------------------------- registration ----------------------------- *)
\* variant of the registration: the receivers connected without a sender
Registry_AnySender ==
  { [signal |-> "post_save", sender |-> s, receiver |-> "send_welcome_email"] :
      s \in {"User", "Post"} }
  \cup
  { [signal |-> "pre_delete", sender |-> s, receiver |-> "notify_before_post_delete"] :
      s \in {"User", "Post"} }

\* the two @receiver decorators: (signal, sender, receiver)
Registry ==
  { [signal |-> "post_save", sender |-> "User", receiver |-> "send_welcome_email"],
    [signal |-> "pre_delete", sender |-> "Post", receiver |-> "notify_before_post_delete"] }

\* the receivers connected to a signal for a sender
Receivers(signal, sender) ==
  { r.receiver : r \in { e \in Registry : e.signal = signal /\ e.sender = sender } }

(* ---------------------------- external calls --------------------------- *)
\* A world is what a receiver can touch: the database, the mail outbox and stdout.
World == [users |-> users, posts |-> posts, outbox |-> outbox, stdout |-> stdout]

\* django.core.mail.send_mail as called here: the call is recorded; a transport
\* failure raises unless fail_silently is set.
send_mail(w, subject, message, from_email, recipient_list, fail_silently, transportOK) ==
  [ world |-> [w EXCEPT !.outbox = Append(@,
                  [subject |-> subject, message |-> message,
                   from_email |-> from_email, recipient_list |-> recipient_list,
                   fail_silently |-> fail_silently])],
    raised |-> (~transportOK /\ ~fail_silently) ]

\* print(line): one line on the diagnostic stream
print(w, line) == [w EXCEPT !.stdout = Append(@, line)]

(* ---------------------------- the receivers ---------------------------- *)
WelcomeSubject == "Welcome to our site!"
WelcomeFrom == "from@example.com"
\* variant of the message template: the closing "!" dropped
WelcomeMessage_NoBang(username) == "Thank you for registering, " \o username

WelcomeMessage(username) == "Thank you for registering, " \o username \o "!"
DeleteLine(title) == "Post titled '" \o title \o "' is about to be deleted."

\* variants of send_welcome_email, each with one plausible slip
send_welcome_email_WrongRecipient(w, sender, instance, created, transportOK) ==
  IF created
  THEN LET r == send_mail(w, WelcomeSubject, WelcomeMessage(instance.username),
                          WelcomeFrom, <<instance.username>>, FALSE, transportOK)
       IN [world |-> r.world, instance |-> instance, raised |-> r.raised]
  ELSE [world |-> w, instance |-> instance, raised |-> FALSE]

send_welcome_email_IgnoresCreated(w, sender, instance, created, transportOK) ==
  LET r == send_mail(w, WelcomeSubject, WelcomeMessage(instance.username),
                     WelcomeFrom, <<instance.email>>, FALSE, transportOK)
  IN [world |-> r.world, instance |-> instance, raised |-> r.raised]

send_welcome_email_FailSilently(w, sender, instance, created, transportOK) ==
  IF created
  THEN LET r == send_mail(w, WelcomeSubject, WelcomeMessage(instance.username),
                          WelcomeFrom, <<instance.email>>, TRUE, transportOK)
       IN [world |-> r.world, instance |-> instance, raised |-> r.raised]
  ELSE [world |-> w, instance |-> instance, raised |-> FALSE]

send_welcome_email_Retry(w, sender, instance, created, transportOK) ==
  IF created
  THEN LET r == send_mail(w, WelcomeSubject, WelcomeMessage(instance.username),
                          WelcomeFrom, <<instance.email>>, FALSE, transportOK)
           q == send_mail(r.world, WelcomeSubject, WelcomeMessage(instance.username),
                          WelcomeFrom, <<instance.email>>, FALSE, transportOK)
       IN IF r.raised
          THEN [world |-> q.world, instance |-> instance, raised |-> q.raised]
          ELSE [world |-> r.world, instance |-> instance, raised |-> r.raised]
  ELSE [world |-> w, instance |-> instance, raised |-> FALSE]

send_welcome_email_SkipsEmptyEmail(w, sender, instance, created, transportOK) ==
  IF created /\ instance.email # ""
  THEN LET r == send_mail(w, WelcomeSubject, WelcomeMessage(instance.username),
                          WelcomeFrom, <<instance.email>>, FALSE, transportOK)
       IN [world |-> r.world, instance |-> instance, raised |-> r.raised]
  ELSE [world |-> w, instance |-> instance, raised |-> FALSE]

\* def send_welcome_email(sender, instance, created, **kwargs)
send_welcome_email(w, sender, instance, created, transportOK) ==
  IF created
  THEN IF HasAttr(instance, "username") /\ HasAttr(instance, "email")
       THEN LET r == send_mail(w, WelcomeSubject, WelcomeMessage(instance.username),
                               WelcomeFrom, <<instance.email>>, FALSE, transportOK)
            IN [world |-> r.world, instance |-> instance, raised |-> r.raised]
       ELSE [world |-> w, instance |-> instance, raised |-> TRUE]
  ELSE [world |-> w, instance |-> instance, raised |-> FALSE]

\* variants of notify_before_post_delete, each with one plausible slip
notify_before_post_delete_NoTitle(w, sender, instance) ==
  [world |-> print(w, "A post is about to be deleted."), instance |-> instance,
   raised |-> FALSE]

notify_before_post_delete_Deletes(w, sender, instance) ==
  [world |-> [print(w, DeleteLine(instance.title)) EXCEPT
                !.posts = [k \in DOMAIN w.posts \ {instance.pk} |-> w.posts[k]]],
   instance |-> instance, raised |-> FALSE]

notify_before_post_delete_Mails(w, sender, instance) ==
  LET r == send_mail(print(w, DeleteLine(instance.title)), "Post deleted",
                     DeleteLine(instance.title), WelcomeFrom, <<WelcomeFrom>>,
                     FALSE, TRUE)
  IN [world |-> r.world, instance |-> instance, raised |-> r.raised]

\* def notify_before_post_delete(sender, instance, **kwargs)
notify_before_post_delete(w, sender, instance) ==
  IF HasAttr(instance, "title")
  THEN [world |-> print(w, DeleteLine(instance.title)), instance |-> instance,
        raised |-> FALSE]
  ELSE [world |-> w, instance |-> instance, raised |-> TRUE]

(* ---------------------------- framework steps -------------------------- *)
Init ==
  /\ users = <<>>
  /\ posts = <<>>
  /\ pc = "idle"
  /\ pending = NoEvent
  /\ outbox = <<>>
  /\ stdout = <<>>
  /\ dispatched = <<>>
  /\ result = "ok"

CanStart == pc = "idle" /\ Len(dispatched) < MaxEvents

\* User.save(): insert or update the row, then send post_save(created)
SaveUser(pk, username, email) ==
  /\ CanStart
  /\ users' = [k \in DOMAIN users \cup {pk} |->
                 IF k = pk THEN [username |-> username, email |-> email] ELSE users[k]]
  /\ pending' = [signal |-> "post_save", sender |-> "User",
                 instance |-> [pk |-> pk, username |-> username, email |-> email],
                 created |-> (pk \notin DOMAIN users)]
  /\ pc' = "dispatch"
  /\ UNCHANGED <<posts, outbox, stdout, dispatched, result>>

\* post_save fired again for a persisted user (the signal may fire more than once)
RefirePostSave(pk, created) ==
  /\ CanStart
  /\ pk \in DOMAIN users
  /\ pending' = [signal |-> "post_save", sender |-> "User",
                 instance |-> [pk |-> pk, username |-> users[pk].username,
                               email |-> users[pk].email],
                 created |-> created]
  /\ pc' = "dispatch"
  /\ UNCHANGED <<users, posts, outbox, stdout, dispatched, result>>

\* Post.save(): insert or update the row, then send post_save(created)
SavePost(pk, title) ==
  /\ CanStart
  /\ posts' = [k \in DOMAIN posts \cup {pk} |->
                 IF k = pk THEN [title |-> title] ELSE posts[k]]
  /\ pending' = [signal |-> "post_save", sender |-> "Post",
                 instance |-> [pk |-> pk, title |-> title],
                 created |-> (pk \notin DOMAIN posts)]
  /\ pc' = "dispatch"
  /\ UNCHANGED <<users, outbox, stdout, dispatched, result>>

\* Post.delete(), first half: send pre_delete
BeginDeletePost(pk) ==
  /\ CanStart
  /\ pk \in DOMAIN posts
  /\ pending' = [signal |-> "pre_delete", sender |-> "Post",
                 instance |-> [pk |-> pk, title |-> posts[pk].title],
                 created |-> FALSE]
  /\ pc' = "dispatch"
  /\ UNCHANGED <<users, posts, outbox, stdout, dispatched, result>>

\* User.delete(), first half: send pre_delete
BeginDeleteUser(pk) ==
  /\ CanStart
  /\ pk \in DOMAIN users
  /\ pending' = [signal |-> "pre_delete", sender |-> "User",
                 instance |-> [pk |-> pk, username |-> users[pk].username,
                               email |-> users[pk].email],
                 created |-> FALSE]
  /\ pc' = "dispatch"
  /\ UNCHANGED <<users, posts, outbox, stdout, dispatched, result>>

\* run the receiver named h on the pending event
RunReceiver(h, w, ev, transportOK) ==
  IF h = "send_welcome_email"
  THEN send_welcome_email(w, ev.sender, ev.instance, ev.created, transportOK)
  ELSE notify_before_post_delete(w, ev.sender, ev.instance)

\* Signal.send(): call the receivers connected for the sender; an exception
\* raised by a receiver propagates to the operation that sent the signal.
Deliver(transportOK) ==
  LET rs == Receivers(pending.signal, pending.sender)
      h == IF rs = {} THEN "none" ELSE CHOOSE x \in rs : TRUE
      r == IF rs = {}
           THEN [world |-> World, instance |-> pending.instance, raised |-> FALSE]
           ELSE RunReceiver(h, World, pending, transportOK)
  IN /\ users' = r.world.users
     /\ posts' = r.world.posts
     /\ outbox' = r.world.outbox
     /\ stdout' = r.world.stdout
     /\ dispatched' = Append(dispatched,
                        [signal |-> pending.signal, sender |-> pending.sender,
                         instance |-> pending.instance, created |-> pending.created,
                         receiver |-> h, transportOK |-> transportOK,
                         raised |-> r.raised, after |-> r.instance])
     /\ result' = IF r.raised THEN "error" ELSE "ok"
     /\ IF pending.signal = "pre_delete" /\ ~r.raised
        THEN pc' = "deleting" /\ pending' = [pending EXCEPT !.instance = r.instance]
        ELSE pc' = "idle" /\ pending' = NoEvent

\* the post_save signal reaches its receivers
DeliverPostSave ==
  /\ pc = "dispatch"
  /\ pending.signal = "post_save"
  /\ \E transportOK \in BOOLEAN : Deliver(transportOK)

\* the pre_delete signal reaches its receivers
DeliverPreDelete ==
  /\ pc = "dispatch"
  /\ pending.signal = "pre_delete"
  /\ \E transportOK \in BOOLEAN : Deliver(transportOK)

\* delete(), second half: the row is removed
CompleteDelete ==
  /\ pc = "deleting"
  /\ IF pending.sender = "Post"
     THEN /\ posts' = [k \in DOMAIN posts \ {pending.instance.pk} |-> posts[k]]
          /\ users' = users
     ELSE /\ users' = [k \in DOMAIN users \ {pending.instance.pk} |-> users[k]]
          /\ posts' = posts
  /\ pc' = "idle"
  /\ pending' = NoEvent
  /\ UNCHANGED <<outbox, stdout, dispatched, result>>

Next ==
  \/ \E pk \in UserIds, u \in Usernames, e \in Emails : SaveUser(pk, u, e)
  \/ \E pk \in UserIds, c \in BOOLEAN : RefirePostSave(pk, c)
  \/ \E pk \in PostIds, t \in Titles : SavePost(pk, t)
  \/ \E pk \in PostIds : BeginDeletePost(pk)
  \/ \E pk \in UserIds : BeginDeleteUser(pk)
  \/ DeliverPostSave
  \/ DeliverPreDelete
  \/ CompleteDelete

Spec == Init /\ [][Next]_vars

TypeOK ==
  /\ pc \in {"idle", "dispatch", "deleting"}
  /\ DOMAIN users \subseteq UserIds
  /\ DOMAIN posts \subseteq PostIds
  /\ Len(dispatched) <= MaxEvents
  /\ result \in {"ok", "error"}

(* ---------------------------- properties ------------------------------- *)
Last(q) == q[Len(q)]

\* this step delivers a signal, and the receiver it runs is h
Delivered(h) ==
  /\ Len(dispatched') = Len(dispatched) + 1
  /\ Last(dispatched').receiver = h

\* the post_save events on User with created=True sent so far
CreatedEvents ==
  { i \in 1..Len(dispatched) :
      /\ dispatched[i].signal = "post_save"
      /\ dispatched[i].sender = "User"
      /\ dispatched[i].created }

\* C1: a post_save on a User delivered to send_welcome_email with created=True
\* makes exactly one send_mail call, whose recipient is the instance's email
\* and whose body contains the instance's username.
C1_OneWelcomePerCreation ==
  [][ (Delivered("send_welcome_email") /\ Last(dispatched').created)
      => /\ Len(outbox') = Len(outbox) + 1
         /\ SubSeq(outbox', 1, Len(outbox)) = outbox
         /\ Last(outbox').recipient_list = <<Last(dispatched').instance.email>>
         /\ Contains(Last(outbox').message, Last(dispatched').instance.username)
    ]_vars

C1_Witness ==
  /\ Len(dispatched) = 1
  /\ dispatched[1].receiver = "send_welcome_email"
  /\ dispatched[1].created
  /\ dispatched[1].instance.username = "alice"
  /\ Len(outbox) = 1
  /\ outbox[1].recipient_list = <<"alice@example.com">>

\* C2: a post_save on a User delivered to send_welcome_email with created=False
\* leaves the sequence of send_mail calls unchanged.
C2_NoWelcomeOnUpdate ==
  [][ (Delivered("send_welcome_email") /\ ~Last(dispatched').created)
      => outbox' = outbox ]_vars

C2_Witness ==
  /\ Len(dispatched) = 2
  /\ dispatched[2].receiver = "send_welcome_email"
  /\ ~dispatched[2].created
  /\ Len(outbox) = 1

\* C3: the deletion of a Post produces exactly one line, which contains the
\* post's title, while the post still exists; the row is removed only in a
\* later step, after that line and no other was printed for this deletion.
C3_LineBeforeDeletion ==
  [][ /\ (pc = "dispatch" /\ pending.signal = "pre_delete" /\ pending.sender = "Post"
          /\ Len(dispatched') = Len(dispatched) + 1)
         => /\ Len(stdout') = Len(stdout) + 1
            /\ SubSeq(stdout', 1, Len(stdout)) = stdout
            /\ Contains(Last(stdout'), pending.instance.title)
            /\ pending.instance.pk \in DOMAIN posts
            /\ posts[pending.instance.pk].title = pending.instance.title
            /\ posts' = posts
            /\ pc' = "deleting"
      /\ (DOMAIN posts' # DOMAIN posts /\ DOMAIN posts' \subseteq DOMAIN posts)
         => /\ pc = "deleting"
            /\ stdout' = stdout
            /\ Len(stdout) >= 1
            /\ Contains(Last(stdout), pending.instance.title)
            /\ Last(dispatched).signal = "pre_delete"
            /\ Last(dispatched).sender = "Post"
            /\ Last(dispatched).instance = pending.instance
            /\ DOMAIN posts' = DOMAIN posts \ {pending.instance.pk}
            /\ Len(stdout) = Cardinality({ i \in 1..Len(dispatched) :
                                 /\ dispatched[i].signal = "pre_delete"
                                 /\ dispatched[i].sender = "Post" })
    ]_vars

C3_Witness ==
  /\ pc = "idle"
  /\ Len(dispatched) >= 1
  /\ Last(dispatched).signal = "pre_delete"
  /\ Last(dispatched).sender = "Post"
  /\ Last(dispatched).instance.title = "Hello World"
  /\ Last(dispatched).instance.pk \notin DOMAIN posts
  /\ stdout = <<"Post titled 'Hello World' is about to be deleted.">>

\* C4: when the mail transport fails during the send of send_welcome_email
\* (created=True), the receiver raises and the operation that sent the signal
\* ends in error.
C4_TransportFailurePropagates ==
  [][ (Delivered("send_welcome_email") /\ Last(dispatched').created
       /\ ~Last(dispatched').transportOK)
      => /\ Last(dispatched').raised
         /\ result' = "error"
         /\ Len(outbox') = Len(outbox) + 1
    ]_vars

C4_Witness ==
  /\ Len(dispatched) >= 1
  /\ Last(dispatched).receiver = "send_welcome_email"
  /\ Last(dispatched).created
  /\ ~Last(dispatched).transportOK
  /\ result = "error"
  /\ pc = "idle"

\* C5: the number of send_mail calls equals the number of post_save events on
\* Users with created=True sent so far: a failed send is not retried and a
\* repeated event is not deduplicated.
C5_AttemptsEqualCreatedEvents ==
  Len(outbox) = Cardinality(CreatedEvents)

C5_Witness ==
  /\ Len(dispatched) = 3
  /\ CreatedEvents = {1, 2, 3}
  /\ dispatched[1].instance = dispatched[2].instance
  /\ dispatched[2].instance = dispatched[3].instance
  /\ dispatched[2].raised
  /\ ~dispatched[3].raised
  /\ Len(outbox) = 3

\* C6: send_welcome_email runs exactly for the post_save events whose sender is
\* User and notify_before_post_delete exactly for the pre_delete events whose
\* sender is Post; a Post save adds no mail and a User deletion no line.
C6_ReceiversScoped ==
  /\ \A i \in 1..Len(dispatched) :
       LET d == dispatched[i] IN
       /\ (d.receiver = "send_welcome_email")
            <=> (d.signal = "post_save" /\ d.sender = "User")
       /\ (d.receiver = "notify_before_post_delete")
            <=> (d.signal = "pre_delete" /\ d.sender = "Post")
       /\ (d.signal = "post_save" /\ d.sender = "Post") => d.receiver = "none"
       /\ (d.signal = "pre_delete" /\ d.sender = "User") => d.receiver = "none"
  /\ Len(outbox) <= Cardinality({ i \in 1..Len(dispatched) :
                        /\ dispatched[i].signal = "post_save"
                        /\ dispatched[i].sender = "User" })
  /\ Len(stdout) <= Cardinality({ i \in 1..Len(dispatched) :
                        /\ dispatched[i].signal = "pre_delete"
                        /\ dispatched[i].sender = "Post" })

C6_Witness ==
  /\ Len(dispatched) = 3
  /\ dispatched[1].signal = "post_save" /\ dispatched[1].sender = "Post"
  /\ dispatched[1].created
  /\ dispatched[2].signal = "post_save" /\ dispatched[2].sender = "User"
  /\ dispatched[3].signal = "pre_delete" /\ dispatched[3].sender = "User"
  /\ pc = "idle"
  /\ DOMAIN users = {}
  /\ stdout = <<>>
  /\ Len(outbox) = 1

\* C7: a step in which a receiver runs leaves the persisted users and posts and
\* the instance it was given unchanged; a post leaves the table only in the
\* framework's own removal step.
C7_ReceiversArePassive ==
  [][ /\ (Len(dispatched') = Len(dispatched) + 1)
         => /\ users' = users
            /\ posts' = posts
            /\ Last(dispatched').after = Last(dispatched').instance
            /\ Last(dispatched').instance = pending.instance
      /\ (DOMAIN posts' # DOMAIN posts /\ DOMAIN posts' \subseteq DOMAIN posts)
         => (pc = "deleting" /\ dispatched' = dispatched)
    ]_vars

C7_Witness ==
  /\ Len(dispatched) = 3
  /\ dispatched[1].receiver = "send_welcome_email" /\ dispatched[1].created
  /\ dispatched[3].receiver = "notify_before_post_delete"
  /\ pc = "deleting"
  /\ dispatched[3].instance.pk \in DOMAIN posts
  /\ dispatched[1].instance.pk \in DOMAIN users

\* C8: a pre_delete on a Post delivered to notify_before_post_delete adds one
\* line and nothing else: no send_mail call, and the receiver does not raise,
\* whatever the title (the empty title included).
C8_NoticeOnlyPrints ==
  [][ Delivered("notify_before_post_delete")
      => /\ outbox' = outbox
         /\ Len(stdout') = Len(stdout) + 1
         /\ ~Last(dispatched').raised
         /\ result' = "ok"
    ]_vars

C8_Witness ==
  /\ Len(dispatched) >= 1
  /\ Last(dispatched).receiver = "notify_before_post_delete"
  /\ Last(dispatched).instance.title = ""
  /\ Last(stdout) = "Post titled '' is about to be deleted."
  /\ result = "ok"

\* C9: every send_mail call made carries subject "Welcome to our site!",
\* from_email "from@example.com", fail_silently false, and for the user (u, e)
\* of its event the message "Thank you for registering, u!" and the recipient
\* list [e].
C9_MailParameters ==
  [][ (Delivered("send_welcome_email") /\ Last(dispatched').created)
      => \E u \in Usernames, e \in Emails :
           /\ Last(dispatched').instance.username = u
           /\ Last(dispatched').instance.email = e
           /\ outbox' = Append(outbox,
                [subject |-> "Welcome to our site!",
                 message |-> "Thank you for registering, " \o u \o "!",
                 from_email |-> "from@example.com",
                 recipient_list |-> <<e>>,
                 fail_silently |-> FALSE])
    ]_vars

C9_Witness ==
  /\ Len(outbox) = 2
  /\ outbox[1].message = "Thank you for registering, alice!"
  /\ outbox[2].message = "Thank you for registering, bob!"
  /\ outbox[1].subject = outbox[2].subject
  /\ outbox[1].from_email = outbox[2].from_email
  /\ outbox[1].recipient_list # outbox[2].recipient_list

\* C10: send_welcome_email does not look at the address: for created=True the
\* send is attempted for every email value, the empty one included, and the
\* receiver raises only when the transport failed.
C10_NoEmailValidation ==
  /\ \A i \in 1..Len(dispatched) :
       (dispatched[i].receiver = "send_welcome_email" /\ dispatched[i].created)
       => /\ dispatched[i].raised => ~dispatched[i].transportOK
          /\ \E j \in 1..Len(outbox) :
               outbox[j].recipient_list = <<dispatched[i].instance.email>>
  /\ \A e \in Emails :
       Cardinality({ k \in CreatedEvents : dispatched[k].instance.email = e })
         = Cardinality({ j \in 1..Len(outbox) : outbox[j].recipient_list = <<e>> })

C10_Witness ==
  /\ Len(dispatched) >= 1
  /\ Last(dispatched).receiver = "send_welcome_email"
  /\ Last(dispatched).created
  /\ Last(dispatched).instance.email = ""
  /\ ~Last(dispatched).raised
  /\ Last(outbox).recipient_list = <<"">>
====
